---- MODULE Spec2Model ----
(***************************************************************************)
(* acmi-compressor (src/src/main.rs): a two-pass rewriter of ACMI traces.  *)
(* Pass 1 reads the reference latitude/longitude of the header and the     *)
(* minimum latitude/longitude of the updates; pass 2 re-reads the file in  *)
(* a reader thread, sends the records through a bounded channel to the     *)
(* writer thread, which re-anchors coordinates and writes per-entity       *)
(* deltas.                                                                 *)
(*                                                                         *)
(* f64 values are modelled as integers counting 1/Scale of a unit, so that *)
(* floor() is a real operation.  NaN and rounding error are outside the    *)
(* model.  Option<f64> is <<>> (None) or <<v>> (Some(v)).                  *)
(***************************************************************************)
EXTENDS Integers, Sequences, FiniteSets, TLC

VARIABLES
    file,              \* the records the parser yields for the input file
    pc,                \* run(): "pass1", "pipeline", or the way it ended
    reference_ll,      \* run(): reference read from the header
    new_reference_ll,  \* run(): the new reference anchor
    chan,              \* records buffered in the bounded channel
    rd_pos,            \* reader thread: number of records sent
    rd_state,          \* reader thread: "running", "ok", "err"
    wr_state,          \* writer thread: "new", "running", "ok", "err", "panic"
    this_frame,        \* writer_thread: timestamp of the last written Frame
    active_entities,   \* writer_thread: id -> PropertyMap
    out,               \* records written to stdout, in order
    recvd              \* history: records the writer thread received, in order

vars == << file, pc, reference_ll, new_reference_ll, chan, rd_pos, rd_state,
           wr_state, this_frame, active_entities, out, recvd >>

-----------------------------------------------------------------------------
(* Bounds of the model.                                                    *)

Scale == 2        \* model units per whole degree
MaxCoord == 3     \* largest coordinate of the input, in model units
MaxId == 2        \* entity ids are 1..MaxId
MaxTs == 2        \* frame timestamps are 0..MaxTs
MaxName == 2      \* values of the non-coordinate property are 1..MaxName
MaxLen == 3       \* records per file
ChanCap == 2      \* capacity of the channel (bounded(1024) scaled down)

-----------------------------------------------------------------------------
(* Data model: tacview::record::{Record, GlobalProperty, Property, Coords, *)
(* Update}, and LL.                                                        *)

None == << >>
Some(v) == << v >>

LL(lat, lon) == [lat |-> lat, lon |-> lon]

Coords(lat, lon, alt) == [latitude |-> lat, longitude |-> lon, altitude |-> alt]
CoordsDefault == Coords(None, None, None)

PropT(c) == [tag |-> "T", coords |-> c]
PropName(v) == [tag |-> "Name", value |-> v]

RefLat(v) == [type |-> "GlobalProperty", gp |-> "ReferenceLatitude", val |-> v]
RefLon(v) == [type |-> "GlobalProperty", gp |-> "ReferenceLongitude", val |-> v]
OtherGlobal == [type |-> "GlobalProperty", gp |-> "Title", val |-> 0]
Event == [type |-> "Event"]
Frame(ts) == [type |-> "Frame", ts |-> ts]
Update(id, props) == [type |-> "Update", id |-> id, props |-> props]
Remove(id) == [type |-> "Remove", id |-> id]
ParseError == [type |-> "ParseError"]

\* floor() of a value given in model units, in model units.
Floor(x) == (x \div Scale) * Scale

Min(a, b) == IF a <= b THEN a ELSE b

-----------------------------------------------------------------------------
(* Pass 1: parse_original_ll and find_min_ll.                              *)

\* parse_original_ll, from record i on with the reference read so far.  The
\* record that ends the leading run of GlobalProperty records is consumed
\* too (the for loop has taken it from the iterator before the break).
\* err: the parser yielded an error; next: the first record not consumed.
RECURSIVE parse_original_ll_from(_, _, _)
parse_original_ll_from(f, i, ll) ==
    IF i > Len(f) THEN [err |-> FALSE, ll |-> ll, next |-> i]
    ELSE IF f[i].type = "ParseError" THEN [err |-> TRUE, ll |-> ll, next |-> i]
    ELSE IF f[i].type # "GlobalProperty" THEN [err |-> FALSE, ll |-> ll, next |-> i + 1]
    ELSE IF f[i].gp = "ReferenceLatitude"
         THEN parse_original_ll_from(f, i + 1, LL(f[i].val, ll.lon))
    ELSE IF f[i].gp = "ReferenceLongitude"
         THEN parse_original_ll_from(f, i + 1, LL(ll.lat, f[i].val))
    ELSE parse_original_ll_from(f, i + 1, ll)

parse_original_ll(f) == parse_original_ll_from(f, 1, LL(0, 0))

\* Mutant of FirstT: the last T property.
LastT(props) ==
    IF \E j \in DOMAIN props : props[j].tag = "T"
    THEN LET j == CHOOSE k \in DOMAIN props :
                     /\ props[k].tag = "T"
                     /\ \A m \in (k + 1)..Len(props) : props[m].tag # "T"
         IN  Some(props[j].coords)
    ELSE None

\* props.iter().find(|p| matches!(p, Property::T(_))): the first T property.
FirstT(props) ==
    IF \E j \in DOMAIN props : props[j].tag = "T"
    THEN LET j == CHOOSE k \in DOMAIN props :
                     /\ props[k].tag = "T"
                     /\ \A m \in 1..(k - 1) : props[m].tag # "T"
         IN  Some(props[j].coords)
    ELSE None

\* One step of the fold of find_min_ll: the running minimum (an Option)
\* with one more Option<f64> observed.
FoldMin(acc, x) ==
    IF x = None THEN acc
    ELSE IF acc = None THEN x
    ELSE Some(Min(acc[1], x[1]))

\* find_min_ll, from record i on with the running minima (Options).
RECURSIVE find_min_ll_from(_, _, _, _)
find_min_ll_from(f, i, new_ref_lat, new_ref_lon) ==
    IF i > Len(f)
    THEN [err |-> FALSE,
          ll  |-> LL(IF new_ref_lat = None THEN 0 ELSE new_ref_lat[1],
                     IF new_ref_lon = None THEN 0 ELSE new_ref_lon[1])]
    ELSE IF f[i].type = "ParseError" THEN [err |-> TRUE, ll |-> LL(0, 0)]
    ELSE IF f[i].type = "Update" /\ FirstT(f[i].props) # None
         THEN LET coords == FirstT(f[i].props)[1]
              IN  find_min_ll_from(f, i + 1,
                                   FoldMin(new_ref_lat, coords.latitude),
                                   FoldMin(new_ref_lon, coords.longitude))
    ELSE find_min_ll_from(f, i + 1, new_ref_lat, new_ref_lon)

find_min_ll(f, start) == find_min_ll_from(f, start, None, None)

\* run(), lines 117-120: the new reference anchor.
NewReference(ref, min) == LL(Floor(ref.lat + min.lat), Floor(ref.lon + min.lon))

-----------------------------------------------------------------------------
(* Pass 2, the writer's pure parts.                                        *)

\* Mutant of offset_coords: the two assertions are left out.
offset_coords_unasserted(c, old_ref, new_ref) ==
    [ok |-> TRUE,
     c  |-> Coords(IF c.latitude = None THEN None
                   ELSE Some(c.latitude[1] + old_ref.lat - new_ref.lat),
                   IF c.longitude = None THEN None
                   ELSE Some(c.longitude[1] + old_ref.lon - new_ref.lon),
                   c.altitude)]

\* offset_coords: re-anchor latitude and longitude where present.  ok is
\* FALSE when one of the two assertions fails (the thread panics).
offset_coords(c, old_ref, new_ref) ==
    LET lat == IF c.latitude = None THEN None
               ELSE Some(c.latitude[1] + old_ref.lat - new_ref.lat)
        lon == IF c.longitude = None THEN None
               ELSE Some(c.longitude[1] + old_ref.lon - new_ref.lon)
    IN  [ok |-> /\ (lat # None => lat[1] > 0)
                /\ (lon # None => lon[1] > 0),
         c  |-> Coords(lat, lon, c.altitude)]

\* writer_thread, lines 195-201: every T property of the update re-anchored.
OffsetProps(props, old_ref, new_ref) ==
    [ok    |-> \A j \in DOMAIN props :
                   props[j].tag = "T" =>
                       offset_coords(props[j].coords, old_ref, new_ref).ok,
     props |-> [j \in DOMAIN props |->
                   IF props[j].tag = "T"
                   THEN PropT(offset_coords(props[j].coords, old_ref, new_ref).c)
                   ELSE props[j]]]

\* Mutant of props_map: of two properties with one tag the earlier one stays.
props_map_first(props) ==
    [t \in { props[j].tag : j \in DOMAIN props } |->
        props[CHOOSE j \in DOMAIN props :
                  /\ props[j].tag = t
                  /\ \A k \in DOMAIN props : props[k].tag = t => j <= k]]

\* props_map: tag -> property; of two properties with one tag the later one
\* stays.
props_map(props) ==
    [t \in { props[j].tag : j \in DOMAIN props } |->
        props[CHOOSE j \in DOMAIN props :
                  /\ props[j].tag = t
                  /\ \A k \in DOMAIN props : props[k].tag = t => k <= j]]

\* map.values().cloned().collect(): the values in the map's iteration order,
\* an order that is fixed but not specified.
Values(m) ==
    CHOOSE s \in [1..Cardinality(DOMAIN m) -> { m[t] : t \in DOMAIN m }] :
        { s[j].tag : j \in DOMAIN s } = DOMAIN m

\* One field of Coords::delta.
DeltaField(prev, curr) == IF curr # None /\ curr # prev THEN curr ELSE None

\* Coords::delta of the tacview library: the fields of curr that are present
\* and differ from prev.
delta(prev, curr) ==
    Coords(DeltaField(prev.latitude, curr.latitude),
           DeltaField(prev.longitude, curr.longitude),
           DeltaField(prev.altitude, curr.altitude))

\* Mutant of changed_props: every incoming property counts as changed.
changed_props_all(stored, props) == props

\* writer_thread, lines 217-247: the changed properties of an update for an
\* entity whose stored map is `stored`.
changed_props(stored, props) ==
    LET keep(t) ==
            IF t \in DOMAIN stored
            THEN IF stored[t].tag = "T"
                 THEN delta(stored[t].coords, props[t].coords) # CoordsDefault
                 ELSE stored[t] # props[t]
            ELSE TRUE
    IN  [t \in { u \in DOMAIN props : keep(u) } |->
            IF t \in DOMAIN stored /\ stored[t].tag = "T"
            THEN PropT(delta(stored[t].coords, props[t].coords))
            ELSE props[t]]

\* HashMap::extend: the entries of `changed` replace or join those stored.
Extend(stored, changed) ==
    [t \in DOMAIN stored \cup DOMAIN changed |->
        IF t \in DOMAIN changed THEN changed[t] ELSE stored[t]]

\* The empty map (FxHashMap::default()).
EmptyMap == [t \in {} |-> None]

MapInsert(m, k, v) == [x \in DOMAIN m \cup {k} |-> IF x = k THEN v ELSE m[x]]
MapRemove(m, k) == [x \in DOMAIN m \ {k} |-> m[x]]

\* writer_thread, lines 193-263: an Update record.  panic: an assertion of
\* offset_coords failed; write: the records written, none or one; entities:
\* active_entities afterwards.
HandleUpdate(up, entities, old_ref, new_ref) ==
    LET off   == OffsetProps(up.props, old_ref, new_ref)
        props == props_map(off.props)
    IN  IF ~off.ok
        THEN [panic |-> TRUE, write |-> << >>, entities |-> entities]
        ELSE IF up.id \notin DOMAIN entities
        THEN [panic    |-> FALSE,
              write    |-> << Update(up.id, Values(props)) >>,
              entities |-> MapInsert(entities, up.id, props)]
        ELSE LET changed == changed_props(entities[up.id], props)
             IN  IF DOMAIN changed # {}
                 THEN [panic    |-> FALSE,
                       write    |-> << Update(up.id, Values(changed)) >>,
                       entities |-> MapInsert(entities, up.id,
                                              Extend(entities[up.id], changed))]
                 ELSE [panic |-> FALSE, write |-> << >>, entities |-> entities]

\* Mutant of HandleGlobal: every global property but the reference longitude
\* is rewritten as the reference latitude.
HandleGlobalAsReference(gp, new_ref) ==
    IF gp.gp = "ReferenceLongitude" THEN RefLon(new_ref.lon)
    ELSE RefLat(new_ref.lat)

\* writer_thread, lines 170-178: a GlobalProperty record.
HandleGlobal(gp, new_ref) ==
    IF gp.gp = "ReferenceLatitude" THEN RefLat(new_ref.lat)
    ELSE IF gp.gp = "ReferenceLongitude" THEN RefLon(new_ref.lon)
    ELSE gp

\* Mutant of FrameIsNew: every frame is written.
FrameAlwaysNew(ts, frame) == TRUE

\* writer_thread, lines 184-191: is Frame(ts) written?
FrameIsNew(ts, frame) == ts # frame

\* Mutant of RemoveIsTracked: every removal is written.
RemoveAlwaysTracked(id, entities) == TRUE

\* writer_thread, lines 266-272: is Remove(id) written?
RemoveIsTracked(id, entities) == id \in DOMAIN entities

\* writer_thread, lines 167-273: the match on one received record.
Handle(rec, frame, entities, old_ref, new_ref) ==
    IF rec.type = "GlobalProperty"
    THEN [panic |-> FALSE, write |-> << HandleGlobal(rec, new_ref) >>,
          frame |-> frame, entities |-> entities]
    ELSE IF rec.type = "Event"
    THEN [panic |-> FALSE, write |-> << rec >>,
          frame |-> frame, entities |-> entities]
    ELSE IF rec.type = "Frame"
    THEN IF FrameIsNew(rec.ts, frame)
         THEN [panic |-> FALSE, write |-> << rec >>,
               frame |-> rec.ts, entities |-> entities]
         ELSE [panic |-> FALSE, write |-> << >>,
               frame |-> frame, entities |-> entities]
    ELSE IF rec.type = "Update"
    THEN LET r == HandleUpdate(rec, entities, old_ref, new_ref)
         IN  [panic |-> r.panic, write |-> r.write,
              frame |-> frame, entities |-> r.entities]
    ELSE \* Remove
         IF RemoveIsTracked(rec.id, entities)
         THEN [panic |-> FALSE, write |-> << rec >>,
               frame |-> frame, entities |-> MapRemove(entities, rec.id)]
         ELSE [panic |-> FALSE, write |-> << >>,
               frame |-> frame, entities |-> entities]

-----------------------------------------------------------------------------
(* The input files.  A file is the sequence of records its parser yields;  *)
(* a parse error, if any, ends it.                                         *)

Opt(S) == {None} \cup { Some(v) : v \in S }

Seqs(S, n) == UNION { [1..k -> S] : k \in 0..n }

Files(S, n) ==
    Seqs(S, n) \cup { Append(s, ParseError) : s \in Seqs(S, n - 1) }

Ids == 1..MaxId
CoordVals == 1..MaxCoord
RefVals == {1}

\* General family: every kind of record, two entities, plain updates.
GeneralRecords ==
    {OtherGlobal, Event}
    \cup { Frame(t) : t \in 0..MaxTs }
    \cup { Remove(i) : i \in Ids }
    \cup { Update(i, << PropT(Coords(Some(1), None, None)) >>) : i \in Ids }

\* Anchor family: reference records and updates of one entity whose
\* coordinates vary on both axes.
AnchorRecords ==
    { RefLat(v) : v \in RefVals } \cup { RefLon(v) : v \in RefVals }
    \cup { Frame(1) }
    \cup { Update(1, << PropT(Coords(la, lo, None)) >>) :
               la \in Opt(CoordVals), lo \in Opt({MaxCoord}) }

\* Diff family: updates of one entity with T and Name properties, and its
\* removal.
DiffProps ==
    { PropT(Coords(la, None, al)) :
          la \in Opt({1, MaxCoord}), al \in Opt({1}) }
    \cup { PropName(v) : v \in 1..MaxName }

\* Property lists of at most two properties; a T property comes first.
DiffPropLists ==
    { ps \in Seqs(DiffProps, 2) :
          \A j \in DOMAIN ps : ps[j].tag = "T" => j = 1 }

\* The scanner family: a reference, and updates of one entity with one T
\* property, with two different ones, or with a name before the T property.
ScanCoords == { Coords(la, None, None) : la \in Opt({1, MaxCoord}) }

ScanRecords ==
    { RefLat(v) : v \in RefVals }
    \cup { Update(1, << PropT(c) >>) : c \in ScanCoords }
    \cup { Update(1, << PropT(p[1]), PropT(p[2]) >>) :
               p \in { q \in ScanCoords \X ScanCoords : q[1] # q[2] } }
    \cup { Update(1, << PropName(1), PropT(Coords(Some(1), None, None)) >>) }

\* The termination family: records that are written, one that may not be,
\* and updates of which the second fails the writer's assertion when pass 1
\* has dropped the first.
TermRecords ==
    { Event, Frame(0),
      Update(1, << PropT(Coords(Some(1), None, None)) >>),
      Update(1, << PropT(Coords(Some(Scale), None, None)) >>) }

DiffRecords ==
    { Remove(1) } \cup { Update(1, ps) : ps \in DiffPropLists }

-----------------------------------------------------------------------------
(* The program.                                                            *)

InitWith(F) ==
    /\ file \in F
    /\ pc = "pass1"
    /\ reference_ll = LL(0, 0)
    /\ new_reference_ll = LL(0, 0)
    /\ chan = << >>
    /\ rd_pos = 0
    /\ rd_state = "running"
    /\ wr_state = "new"
    /\ this_frame = 0
    /\ active_entities = EmptyMap
    /\ out = << >>
    /\ recvd = << >>

Init == InitWith(Files(GeneralRecords, MaxLen))
InitAnchor == InitWith(Files(AnchorRecords, MaxLen))
InitDiff == InitWith(Files(DiffRecords, MaxLen))
InitScan == InitWith(Files(ScanRecords, MaxLen))
InitTerm == InitWith(Files(TermRecords, MaxLen))

\* Mutant of Send: the record jumps the queue.
SendFront(ch, rec) == << rec >> \o ch

\* tx.send(rec), line 135: the record joins the back of the channel.
Send(ch, rec) == Append(ch, rec)

WriterExited == wr_state \in {"ok", "err", "panic"}
ReaderExited == rd_state \in {"ok", "err"}

\* run(), lines 112-126: pass 1 and the new reference; a parse error ends
\* the program.
Pass1 ==
    /\ pc = "pass1"
    /\ LET h == parse_original_ll(file)
           m == find_min_ll(file, h.next)
       IN  IF h.err \/ m.err
           THEN /\ pc' = "err"
                /\ UNCHANGED << reference_ll, new_reference_ll >>
           ELSE /\ pc' = "pipeline"
                /\ reference_ll' = h.ll
                /\ new_reference_ll' = NewReference(h.ll, m.ll)
    /\ UNCHANGED << file, chan, rd_pos, rd_state, wr_state, this_frame,
                    active_entities, out, recvd >>

\* Mutant of SendFailed: the closed channel is reported as an error.
SendFailedReported == "err"

\* Reader thread, lines 135-139: a send that fails because the receiver is
\* gone breaks the loop, and the thread returns Ok(()).
SendFailed == "ok"

\* Mutant of ReaderSend: oblivious to the channel's capacity.
ReaderSendUnbounded ==
    /\ pc = "pipeline"
    /\ rd_state = "running"
    /\ rd_pos < Len(file)
    /\ ~WriterExited
    /\ chan' = Send(chan, file[rd_pos + 1])
    /\ rd_pos' = rd_pos + 1
    /\ UNCHANGED << file, pc, reference_ll, new_reference_ll, rd_state,
                    wr_state, this_frame, active_entities, out, recvd >>

\* Reader thread, lines 133-138: parse the next record and send it.  A parse
\* error ends the thread with the error; a send on a channel whose receiver
\* is gone ends it quietly; a send on a full channel waits.
ReaderSend ==
    /\ pc = "pipeline"
    /\ rd_state = "running"
    /\ rd_pos < Len(file)
    /\ LET rec == file[rd_pos + 1]
       IN  IF rec.type = "ParseError"
           THEN /\ rd_state' = "err"
                /\ UNCHANGED << chan, rd_pos >>
           ELSE IF WriterExited
           THEN /\ rd_state' = SendFailed
                /\ UNCHANGED << chan, rd_pos >>
           ELSE /\ Len(chan) < ChanCap
                /\ chan' = Send(chan, rec)
                /\ rd_pos' = rd_pos + 1
                /\ UNCHANGED rd_state
    /\ UNCHANGED << file, pc, reference_ll, new_reference_ll, wr_state,
                    this_frame, active_entities, out, recvd >>

\* Reader thread, lines 133-135: the second pass reads the file from the disk
\* again, and Reader::new or the parser's next() yields an error that pass 1
\* did not meet (a failed read, or a file that changed since pass 1).  The
\* `?` ends the thread with the error before anything is sent.
ReaderFail ==
    /\ pc = "pipeline"
    /\ rd_state = "running"
    /\ rd_state' = "err"
    /\ UNCHANGED << file, pc, reference_ll, new_reference_ll, chan, rd_pos,
                    wr_state, this_frame, active_entities, out, recvd >>

\* Mutant of ReaderEof: the sender outlives the end of the input.
ReaderEofKeepsSender ==
    /\ pc = "pipeline"
    /\ rd_state = "running"
    /\ rd_pos = Len(file)
    /\ UNCHANGED vars

\* Reader thread, lines 134-139: end of input; the sender is dropped.
ReaderEof ==
    /\ pc = "pipeline"
    /\ rd_state = "running"
    /\ rd_pos = Len(file)
    /\ rd_state' = "ok"
    /\ UNCHANGED << file, pc, reference_ll, new_reference_ll, chan, rd_pos,
                    wr_state, this_frame, active_entities, out, recvd >>

\* writer_thread, line 156: the writer is created; this may fail.
WriterStart ==
    /\ pc = "pipeline"
    /\ wr_state = "new"
    /\ \E io_ok \in BOOLEAN :
          IF io_ok THEN wr_state' = "running" /\ UNCHANGED chan
          ELSE wr_state' = "err" /\ chan' = << >>
    /\ UNCHANGED << file, pc, reference_ll, new_reference_ll, rd_pos,
                    rd_state, this_frame, active_entities, out, recvd >>

\* writer_thread, lines 166-274: receive one record and handle it.  A
\* failed assertion or a failed write ends the thread, and the receiver is
\* dropped with what the channel holds.
WriterStep ==
    /\ pc = "pipeline"
    /\ wr_state = "running"
    /\ chan # << >>
    /\ recvd' = Append(recvd, Head(chan))
    /\ LET r == Handle(Head(chan), this_frame, active_entities,
                       reference_ll, new_reference_ll)
       IN  IF r.panic
           THEN /\ wr_state' = "panic"
                /\ chan' = << >>
                /\ UNCHANGED << this_frame, active_entities, out >>
           ELSE \E io_ok \in BOOLEAN :
                   IF io_ok \/ r.write = << >>
                   THEN /\ out' = out \o r.write
                        /\ this_frame' = r.frame
                        /\ active_entities' = r.entities
                        /\ chan' = Tail(chan)
                        /\ UNCHANGED wr_state
                   ELSE /\ wr_state' = "err"
                        /\ chan' = << >>
                        /\ UNCHANGED << this_frame, active_entities, out >>
    /\ UNCHANGED << file, pc, reference_ll, new_reference_ll, rd_pos,
                    rd_state >>

\* writer_thread, lines 166 and 276-293: the channel is empty and its sender
\* is gone, so the loop ends; the output is flushed, which may fail.
WriterFinish ==
    /\ pc = "pipeline"
    /\ wr_state = "running"
    /\ chan = << >>
    /\ ReaderExited
    /\ \E io_ok \in BOOLEAN : wr_state' = IF io_ok THEN "ok" ELSE "err"
    /\ UNCHANGED << file, pc, reference_ll, new_reference_ll, chan, rd_pos,
                    rd_state, this_frame, active_entities, out, recvd >>

\* Mutant of JoinResult: the reader's result is dropped.
JoinWriterOnly(wr, rd) ==
    IF wr = "panic" THEN "panic" ELSE IF wr = "err" THEN "err" ELSE "ok"

\* run(), lines 142-147 and main(), lines 374-379: what the two joins make
\* of the threads' results.  A thread that panicked makes expect() panic;
\* an error of either thread becomes run()'s error, and main() exits with
\* code 1.
JoinResult(wr, rd) ==
    IF wr = "panic" THEN "panic"
    ELSE IF wr = "err" \/ rd = "err" THEN "err"
    ELSE "ok"

\* run(), lines 142-147: both threads are joined, the writer first.
Join ==
    /\ pc = "pipeline"
    /\ WriterExited
    /\ ReaderExited
    /\ pc' = JoinResult(wr_state, rd_state)
    /\ UNCHANGED << file, reference_ll, new_reference_ll, chan, rd_pos,
                    rd_state, wr_state, this_frame, active_entities, out,
                    recvd >>

Next ==
    \/ Pass1
    \/ ReaderSend
    \/ ReaderFail
    \/ ReaderEof
    \/ WriterStart
    \/ WriterStep
    \/ WriterFinish
    \/ Join

Spec == Init /\ [][Next]_vars
SpecAnchor == InitAnchor /\ [][Next]_vars
SpecDiff == InitDiff /\ [][Next]_vars
SpecScan == InitScan /\ [][Next]_vars

\* The steps a thread takes when it is scheduled.  A failed read or a failed
\* write is an outcome of a step, never something the scheduler owes.
ReaderRuns == ReaderSend \/ ReaderEof
WriterRuns == WriterStart \/ WriterStep \/ WriterFinish

\* Fair scheduling: the main thread and each spawned thread take a step that
\* stays possible.
Fairness ==
    /\ WF_vars(Pass1)
    /\ WF_vars(ReaderRuns)
    /\ WF_vars(WriterRuns)
    /\ WF_vars(Join)

FairSpec == InitTerm /\ [][Next]_vars /\ Fairness

-----------------------------------------------------------------------------
(* What a trace means: the absolute state of every entity after a sequence *)
(* of records, read with a given reference under the rule that a field or  *)
(* property an update leaves out is unchanged.                             *)

\* The value of the last GlobalProperty record named gp in s, 0 without one.
LastGlobal(s, gp) ==
    LET at == { i \in DOMAIN s : s[i].type = "GlobalProperty" /\ s[i].gp = gp }
    IN  IF at = {} THEN 0
        ELSE s[CHOOSE i \in at : \A k \in at : k <= i].val

RefOf(s) ==
    LL(LastGlobal(s, "ReferenceLatitude"), LastGlobal(s, "ReferenceLongitude"))

CountGlobal(s, gp) ==
    Cardinality({ i \in DOMAIN s : s[i].type = "GlobalProperty" /\ s[i].gp = gp })

\* A coordinate field read with its reference.
AbsField(x, ref) == IF x = None THEN None ELSE Some(x[1] + ref)

\* A field of the accumulated position with one more update of it.
MergeField(old, new) == IF new = None THEN old ELSE new

\* One property merged into the state of an entity (tag -> value).
MergeProp(st, p, ref) ==
    IF p.tag = "T"
    THEN LET old == IF "T" \in DOMAIN st THEN st["T"].coords ELSE CoordsDefault
         IN  MapInsert(st, "T",
                 PropT(Coords(
                     MergeField(old.latitude, AbsField(p.coords.latitude, ref.lat)),
                     MergeField(old.longitude, AbsField(p.coords.longitude, ref.lon)),
                     MergeField(old.altitude, p.coords.altitude))))
    ELSE MapInsert(st, p.tag, p)

RECURSIVE MergeProps(_, _, _, _)
MergeProps(st, props, j, ref) ==
    IF j > Len(props) THEN st
    ELSE MergeProps(MergeProp(st, props[j], ref), props, j + 1, ref)

\* The state of every entity after the first n records of s.
RECURSIVE Reconstruct(_, _, _)
Reconstruct(s, n, ref) ==
    IF n = 0 THEN EmptyMap
    ELSE LET before == Reconstruct(s, n - 1, ref)
             rec    == s[n]
         IN  IF rec.type = "Update"
             THEN MapInsert(before, rec.id,
                      MergeProps(IF rec.id \in DOMAIN before
                                 THEN before[rec.id] ELSE EmptyMap,
                                 rec.props, 1, ref))
             ELSE IF rec.type = "Remove" THEN MapRemove(before, rec.id)
             ELSE before

\* The coordinates of every T property of every Update of f.
AllCoords(f) ==
    UNION { { f[i].props[j].coords :
                  j \in { k \in DOMAIN f[i].props : f[i].props[k].tag = "T" } } :
            i \in { k \in DOMAIN f : f[k].type = "Update" } }

SetMin(S) == IF S = {} THEN 0 ELSE CHOOSE x \in S : \A y \in S : x <= y

\* The minimum per axis over every latitude (longitude) present in the file,
\* 0 for an axis no update carries.
MinOfAll(f) ==
    LL(SetMin({ c.latitude[1] : c \in { d \in AllCoords(f) : d.latitude # None } }),
       SetMin({ c.longitude[1] : c \in { d \in AllCoords(f) : d.longitude # None } }))

\* The reference of the header: of the leading run of GlobalProperty records.
HeaderLen(f) ==
    Cardinality({ n \in DOMAIN f : \A k \in 1..n : f[k].type = "GlobalProperty" })

HeaderRef(f) == RefOf(SubSeq(f, 1, HeaderLen(f)))

PositiveCoords(c) ==
    /\ c.latitude # None => c.latitude[1] > 0
    /\ c.longitude # None => c.longitude[1] > 0

-----------------------------------------------------------------------------
(* Claims about the anchor, checked under SpecAnchor.                      *)

\* C1 (as claimed): when the program completes, the absolute state of the
\* entities reconstructed from the output with the output's reference equals
\* the one reconstructed from the input with the input's reference.
C1_RoundTrip ==
    pc = "ok" =>
        Reconstruct(out, Len(out), RefOf(out))
            = Reconstruct(file, Len(file), RefOf(file))

\* C2 (as claimed): with the new reference taken by floor, no assertion of
\* offset_coords fails in pass 2.
C2_NoAssertionFails == wr_state # "panic"

\* C3: every Update written carries, in each T property, a latitude > 0 when
\* present and a longitude > 0 when present, in full and in delta updates.
C3_AnchorPositivity ==
    \A i \in DOMAIN out :
        out[i].type = "Update" =>
            \A j \in DOMAIN out[i].props :
                out[i].props[j].tag = "T" => PositiveCoords(out[i].props[j].coords)

\* C3 witness: a full and then a delta update of one entity were written,
\* the delta with a coordinate, under a reference that was shifted.
C3_Witness ==
    /\ new_reference_ll # reference_ll
    /\ \E i, k \in DOMAIN out :
          /\ i < k
          /\ out[i].type = "Update" /\ out[k].type = "Update"
          /\ out[i].id = out[k].id
          /\ \E j \in DOMAIN out[k].props :
                /\ out[k].props[j].tag = "T"
                /\ out[k].props[j].coords.longitude # None

\* C4 (as claimed): the new reference is floor(orig + min) per axis, orig the
\* reference of the header and min the minimum over all updates of the file.
C4_AnchorOfAllUpdates ==
    pc = "pipeline" =>
        new_reference_ll = NewReference(HeaderRef(file), MinOfAll(file))

\* C5 (as claimed): the output of a completed run holds exactly one
\* ReferenceLatitude and one ReferenceLongitude record, with the values of
\* the new reference.
C5_OneReferenceEach ==
    pc = "ok" =>
        /\ CountGlobal(out, "ReferenceLatitude") = 1
        /\ CountGlobal(out, "ReferenceLongitude") = 1
        /\ RefOf(out) = new_reference_ll

-----------------------------------------------------------------------------
(* Claims about the diff engine, checked under SpecDiff.                   *)

\* The shift pass 2 applies to latitudes and longitudes.
Shift == LL(reference_ll.lat - new_reference_ll.lat,
            reference_ll.lon - new_reference_ll.lon)

\* Every field that `acc` holds is held by `stored` with the same value.
HoldsFields(stored, acc) ==
    /\ acc.latitude # None => stored.latitude = acc.latitude
    /\ acc.longitude # None => stored.longitude = acc.longitude
    /\ acc.altitude # None => stored.altitude = acc.altitude

\* C6 (as claimed): the stored T Coords of an active entity holds every
\* field an update has provided since the entity's state was created, with
\* the value provided last (re-anchored).
C6_StoredIsAccumulated ==
    wr_state \in {"running", "ok"} =>
        LET acc == Reconstruct(recvd, Len(recvd), Shift)
        IN  \A id \in DOMAIN active_entities :
                /\ id \in DOMAIN acc
                /\ "T" \in DOMAIN acc[id] =>
                      /\ "T" \in DOMAIN active_entities[id]
                      /\ HoldsFields(active_entities[id]["T"].coords,
                                     acc[id]["T"].coords)

\* A property differs from the committed state st of its entity: its tag is
\* new, or a field it carries (T) or its value (other tags) is not the
\* committed one.
Differs(p, st) ==
    \/ p.tag \notin DOMAIN st
    \/ /\ p.tag \in DOMAIN st
       /\ p.tag = "T"
       /\ ~HoldsFields(st["T"].coords, p.coords)
    \/ /\ p.tag \in DOMAIN st
       /\ p.tag # "T"
       /\ p # st[p.tag]

\* C7 (as claimed): an Update written for an entity after its first one is
\* not empty, one of its properties differs from what the output has
\* committed for the entity so far, and a T property in it that is a delta
\* (the entity has a committed T) has a field.
C7_DiffMinimality ==
    \A k \in DOMAIN out :
        LET committed == Reconstruct(out, k - 1, LL(0, 0))
        IN  (out[k].type = "Update" /\ out[k].id \in DOMAIN committed) =>
                /\ out[k].props # << >>
                /\ \E j \in DOMAIN out[k].props :
                      Differs(out[k].props[j], committed[out[k].id])
                /\ \A j \in DOMAIN out[k].props :
                      ( /\ out[k].props[j].tag = "T"
                        /\ "T" \in DOMAIN committed[out[k].id] ) =>
                          out[k].props[j].coords # CoordsDefault

-----------------------------------------------------------------------------
(* Claims about frames, removals and the channel, checked under Spec.      *)

IsFrame(r) == r.type = "Frame"
Frames(s) == SelectSeq(s, IsFrame)
LastTs(frames) == IF frames = << >> THEN 0 ELSE frames[Len(frames)].ts

\* The frames among the first n records of s whose timestamp differs from
\* that of the frame kept before them (0 at the start).
RECURSIVE NewFrames(_, _)
NewFrames(s, n) ==
    IF n = 0 THEN << >>
    ELSE LET kept == NewFrames(s, n - 1)
         IN  IF s[n].type = "Frame" /\ s[n].ts # LastTs(kept)
             THEN Append(kept, s[n])
             ELSE kept

\* C8: two Frame records of the output with no Frame between them differ in
\* timestamp; this_frame is the timestamp of the last Frame written, 0
\* before the first; and the frames written are exactly the received frames
\* whose timestamp differed from this_frame.
C8_FrameIdempotence ==
    /\ \A i \in 1..(Len(Frames(out)) - 1) :
           Frames(out)[i].ts # Frames(out)[i + 1].ts
    /\ this_frame = LastTs(Frames(out))
    /\ wr_state \in {"new", "running", "ok"} =>
           Frames(out) = NewFrames(recvd, Len(recvd))

\* C8 witness: two frames were written and a redundant one was dropped.
C8_Witness ==
    /\ wr_state = "running"
    /\ Len(Frames(out)) >= 2
    /\ Len(Frames(recvd)) > Len(Frames(out))

\* Every Remove(id) of s follows an Update of id with no Remove(id) between.
RemovesPreceded(s) ==
    \A k \in DOMAIN s :
        s[k].type = "Remove" =>
            \E i \in 1..(k - 1) :
                /\ s[i].type = "Update"
                /\ s[i].id = s[k].id
                /\ \A m \in (i + 1)..(k - 1) :
                       ~(s[m].type = "Remove" /\ s[m].id = s[k].id)

\* C9: every Remove(id) of the output follows an Update of id in the output
\* with no Remove(id) between them, and handling a Remove(id) for an id
\* without entity state writes nothing.
C9_RemoveValidity ==
    /\ [](RemovesPreceded(out))
    /\ [][ ( /\ wr_state = "running"
             /\ chan # << >>
             /\ recvd' # recvd
             /\ Head(chan).type = "Remove"
             /\ Head(chan).id \notin DOMAIN active_entities )
           => out' = out ]_vars

\* C9 witness: a Remove was written and a later Remove of the same id was
\* dropped.
C9_Witness ==
    /\ wr_state = "running"
    /\ \E k \in DOMAIN out : out[k].type = "Remove"
    /\ Cardinality({ k \in DOMAIN recvd : recvd[k].type = "Remove" })
           > Cardinality({ k \in DOMAIN out : out[k].type = "Remove" })

\* C10: what the writer thread has received is a prefix of the file, in file
\* order; while it runs, received and buffered records together are exactly
\* the records sent; and when both threads end with success the writer has
\* received the whole file.
C10_Fifo ==
    /\ Len(recvd) <= rd_pos
    /\ recvd = SubSeq(file, 1, Len(recvd))
    /\ wr_state \in {"new", "running"} =>
           recvd \o chan = SubSeq(file, 1, rd_pos)
    /\ (wr_state = "ok" /\ rd_state = "ok") => recvd = file

\* C10 witness: the channel is full behind a writer that has received a
\* record already.
C10_Witness ==
    /\ wr_state = "running"
    /\ Len(chan) = ChanCap
    /\ recvd # << >>

-----------------------------------------------------------------------------
(* The pipeline's failure paths.                                           *)

\* C11: when the producer meets a parse error in pass 2, it stops without
\* sending the failed record: what was sent is exactly the records before
\* it.  The consumer still receives every one of them, and once the channel
\* is drained it can leave its loop and return success; when it has, the
\* program fails (with the producer's error).
C11_ProducerParseError ==
    rd_state = "err" =>
        /\ wr_state \in {"new", "running"} =>
                recvd \o chan = SubSeq(file, 1, rd_pos)
        /\ (wr_state = "running" /\ chan = << >>) =>
                ENABLED (WriterFinish /\ wr_state' = "ok")
        /\ wr_state = "ok" => recvd = SubSeq(file, 1, rd_pos)
        /\ pc # "ok"
        /\ (wr_state = "ok" /\ pc # "pipeline") => pc = "err"

\* The producer failed after sending some records but not all; the consumer
\* received them and returned success; the program failed.
C11_Witness ==
    /\ rd_state = "err"
    /\ wr_state = "ok"
    /\ pc = "err"
    /\ 0 < rd_pos /\ rd_pos < Len(file)
    /\ recvd = SubSeq(file, 1, rd_pos)

\* C12: once the consumer has returned with a write error its receiver is
\* closed: nothing is buffered any more and no further record is sent.  A
\* producer that still has a record to send is not kept waiting, also when
\* the channel was full: its send fails at once, and the failed send ends the
\* producer with success, not with an error of its own.
C12_ConsumerEarlyExit ==
    /\ [](wr_state = "err" => chan = << >>)
    /\ []((wr_state = "err" /\ rd_state = "running" /\ rd_pos < Len(file))
              => ENABLED ReaderSend)
    /\ [][wr_state = "err" => (rd_pos' = rd_pos /\ chan' = chan)]_vars
    /\ [][(wr_state = "err" /\ ReaderSend)
              => (rd_state' = "ok" /\ rd_pos' = rd_pos)]_vars

\* The producer had filled the channel before the consumer took anything, the
\* consumer failed, and the producer stopped quietly short of the end.
C12_Witness ==
    /\ wr_state = "err"
    /\ rd_state = "ok"
    /\ recvd = << >>
    /\ rd_pos = ChanCap
    /\ rd_pos < Len(file)

\* C13: once both threads have been joined, the run has returned an error
\* (exit code 1) exactly when the consumer or the producer returned an error,
\* and success exactly when both returned success.
C13_ErrorPropagation ==
    (WriterExited /\ ReaderExited /\ pc # "pipeline") =>
        /\ pc = "err" <=> (wr_state = "err" \/ rd_state = "err")
        /\ pc = "ok" <=> (wr_state = "ok" /\ rd_state = "ok")

-----------------------------------------------------------------------------
(* Claims about the diff of one Update, checked under SpecDiff.            *)

\* The Update up repeats what the earlier Updates of its entity last
\* provided: acc is the entity's accumulated input.
IsRepeat(up, acc) ==
    \A j \in DOMAIN up.props : ~Differs(up.props[j], acc)

\* The Update up is the same record as the last Update of its entity among
\* the records s, and the entity was not removed since.
RepeatsPrevious(up, s) ==
    \E k \in DOMAIN s :
        /\ s[k] = up
        /\ \A m \in (k + 1)..Len(s) :
              ~(s[m].type \in {"Update", "Remove"} /\ s[m].id = up.id)

\* C14 (as claimed): when the consumer handles an Update of a known entity
\* whose properties all equal what the earlier Updates last provided for the
\* same tags (for T: every field it carries), or which is identical to the
\* entity's preceding Update, nothing is written and the state is unchanged.
C14_RepeatSuppression ==
    [][( /\ wr_state = "running" /\ wr_state' = "running"
         /\ chan # << >>
         /\ recvd' = Append(recvd, Head(chan))
         /\ Head(chan).type = "Update"
         /\ LET last == Reconstruct(recvd, Len(recvd), LL(0, 0))
                up   == Head(chan)
            IN  /\ up.id \in DOMAIN last
                /\ IsRepeat(up, last[up.id]) \/ RepeatsPrevious(up, recvd) )
        => (out' = out /\ active_entities' = active_entities)]_vars

\* A property of the input as the output carries it: T re-anchored.
Anchored(p) ==
    IF p.tag = "T"
    THEN PropT(Coords(AbsField(p.coords.latitude, Shift.lat),
                      AbsField(p.coords.longitude, Shift.lon),
                      p.coords.altitude))
    ELSE p

\* The tag map of an Update: of the properties with tag t, the last one.
LastWithTag(props, t) ==
    LET at == { j \in DOMAIN props : props[j].tag = t }
    IN  props[CHOOSE j \in at : \A k \in at : k <= j]

Incoming(up) ==
    [t \in { up.props[j].tag : j \in DOMAIN up.props } |->
        Anchored(LastWithTag(up.props, t))]

\* The field of a T delta: present iff present in the incoming Coords and
\* different from the stored one.
DiffField(stored, inc) == IF inc # None /\ inc # stored THEN inc ELSE None

DiffCoords(stored, inc) ==
    Coords(DiffField(stored.latitude, inc.latitude),
           DiffField(stored.longitude, inc.longitude),
           DiffField(stored.altitude, inc.altitude))

\* The properties the delta rule writes for the tag map inc of an entity
\* whose stored state is stored: (a) new tags in full, (b) the T delta when
\* it has a field, (c) other tags whose value differs.
DeltaRule(stored, inc) ==
    { inc[t] : t \in { u \in DOMAIN inc : u \notin DOMAIN stored } }
    \cup { PropT(DiffCoords(stored[t].coords, inc[t].coords)) :
              t \in { u \in DOMAIN inc \cap DOMAIN stored :
                        /\ u = "T"
                        /\ DiffCoords(stored[u].coords, inc[u].coords)
                               # CoordsDefault } }
    \cup { inc[t] : t \in { u \in DOMAIN inc \cap DOMAIN stored :
                              u # "T" /\ inc[u] # stored[u] } }

\* The properties of the Update appended to s, none when nothing was.
WrittenProps(s, t) ==
    IF t = s THEN {}
    ELSE { t[Len(t)].props[j] : j \in DOMAIN t[Len(t)].props }

\* C15: when the consumer handles an Update of an entity that has stored
\* state, the Update written holds exactly the properties of the delta rule
\* (and none is written when there are none); afterwards every written
\* property is the stored value of its tag, and every other stored tag and
\* every other entity is unchanged.
C15_DeltaRule ==
    [][( /\ wr_state = "running" /\ wr_state' = "running"
         /\ chan # << >>
         /\ recvd' = Append(recvd, Head(chan))
         /\ Head(chan).type = "Update"
         /\ Head(chan).id \in DOMAIN active_entities )
        => LET up      == Head(chan)
               stored  == active_entities[up.id]
               written == DeltaRule(stored, Incoming(up))
           IN  /\ IF written = {} THEN out' = out
                  ELSE /\ Len(out') = Len(out) + 1
                       /\ SubSeq(out', 1, Len(out)) = out
                       /\ out'[Len(out')].type = "Update"
                       /\ out'[Len(out')].id = up.id
                       /\ Len(out'[Len(out')].props) = Cardinality(written)
               /\ WrittenProps(out, out') = written
               /\ up.id \in DOMAIN active_entities'
               /\ DOMAIN active_entities'[up.id] =
                      DOMAIN stored \cup { p.tag : p \in written }
               /\ \A p \in written : active_entities'[up.id][p.tag] = p
               /\ \A t \in DOMAIN stored \ { p.tag : p \in written } :
                      active_entities'[up.id][t] = stored[t]
               /\ \A id \in DOMAIN active_entities \ {up.id} :
                     /\ id \in DOMAIN active_entities'
                     /\ active_entities'[id] = active_entities[id]]_vars

\* An Update with T{latitude, altitude} and a name came for a known entity
\* and was written as T{latitude} alone.
C15_Witness ==
    /\ wr_state = "running"
    /\ Len(recvd) >= 2
    /\ Len(out) = Len(recvd)
    /\ LET r == recvd[Len(recvd)]
           o == out[Len(out)]
       IN  /\ r.type = "Update" /\ recvd[Len(recvd) - 1].type = "Update"
           /\ o.type = "Update"
           /\ Len(r.props) = 2 /\ Len(o.props) = 1
           /\ r.props[1].tag = "T" /\ o.props[1].tag = "T"
           /\ r.props[1].coords.latitude # None
           /\ r.props[1].coords.altitude # None
           /\ o.props[1].coords.latitude # None
           /\ o.props[1].coords.altitude = None

\* C16: an Update of an entity without state is written with every property
\* of its tag map, the later of two entries with one tag, and the map becomes
\* the entity's state; a Remove of an active entity is written and deletes
\* the state (so that the entity's next Update is again one without state);
\* a Remove of an unknown entity writes nothing and leaves every entity's
\* state and this_frame unchanged.
C16_EntityLifecycle ==
    [][( /\ wr_state = "running" /\ wr_state' = "running"
         /\ chan # << >>
         /\ recvd' = Append(recvd, Head(chan)) )
        => LET rec == Head(chan)
           IN  /\ (rec.type = "Update" /\ rec.id \notin DOMAIN active_entities)
                     => /\ Len(out') = Len(out) + 1
                        /\ SubSeq(out', 1, Len(out)) = out
                        /\ out'[Len(out')].type = "Update"
                        /\ out'[Len(out')].id = rec.id
                        /\ Len(out'[Len(out')].props)
                               = Cardinality(DOMAIN Incoming(rec))
                        /\ WrittenProps(out, out')
                               = { Incoming(rec)[t] : t \in DOMAIN Incoming(rec) }
                        /\ active_entities'
                               = MapInsert(active_entities, rec.id, Incoming(rec))
               /\ (rec.type = "Remove" /\ rec.id \in DOMAIN active_entities)
                     => /\ out' = Append(out, rec)
                        /\ active_entities' = MapRemove(active_entities, rec.id)
               /\ (rec.type = "Remove" /\ rec.id \notin DOMAIN active_entities)
                     => /\ out' = out
                        /\ active_entities' = active_entities
                        /\ this_frame' = this_frame]_vars

\* An Update with two names created an entity and was written with the
\* later name; the entity was removed; the same Update came again and was
\* written in full again.
C16_Witness ==
    /\ Len(recvd) = 3 /\ Len(out) = 3
    /\ recvd[1].type = "Update" /\ recvd[3] = recvd[1]
    /\ recvd[2].type = "Remove"
    /\ Len(recvd[1].props) = 2
    /\ recvd[1].props[1].tag = recvd[1].props[2].tag
    /\ recvd[1].props[1] # recvd[1].props[2]
    /\ out[1] = Update(recvd[1].id, << recvd[1].props[2] >>)
    /\ out[2] = recvd[2]
    /\ out[3] = out[1]

-----------------------------------------------------------------------------
(* Claims about the records that pass through, checked under Spec.         *)

\* An Event, or a GlobalProperty that is not a reference.
IsPassThrough(r) ==
    \/ r.type = "Event"
    \/ /\ r.type = "GlobalProperty"
       /\ r.gp \notin {"ReferenceLatitude", "ReferenceLongitude"}

\* The written record o corresponds to the input record r: the same record
\* when it passes through, otherwise one of the same kind for the same
\* global property, timestamp or entity.
Corresponds(o, r) ==
    /\ o.type = r.type
    /\ IsPassThrough(r) => o = r
    /\ r.type = "GlobalProperty" => o.gp = r.gp
    /\ r.type = "Frame" => o.ts = r.ts
    /\ r.type \in {"Update", "Remove"} => o.id = r.id

\* The records o[i..] correspond, in order, to some of the records r[j..].
RECURSIVE IsImageFrom(_, _, _, _)
IsImageFrom(o, i, r, j) ==
    IF i > Len(o) THEN TRUE
    ELSE IF j > Len(r) THEN FALSE
    ELSE IF Corresponds(o[i], r[j]) THEN IsImageFrom(o, i + 1, r, j + 1)
    ELSE IsImageFrom(o, i, r, j + 1)

\* C17: the pass-through records written are the pass-through records
\* received, each once, unchanged and in order (all but the last received
\* when its write failed); the output corresponds, in order, to a
\* sub-sequence of the records received; and handling a pass-through record
\* appends it to the output and changes neither this_frame nor entity state.
C17_PassThrough ==
    /\ [](LET po == SelectSeq(out, IsPassThrough)
              pr == SelectSeq(recvd, IsPassThrough)
          IN  IF wr_state \in {"err", "panic"}
              THEN po = pr \/ po = SubSeq(pr, 1, Len(pr) - 1)
              ELSE po = pr)
    /\ [](IsImageFrom(out, 1, recvd, 1))
    /\ [][( /\ wr_state = "running"
            /\ chan # << >>
            /\ recvd' = Append(recvd, Head(chan))
            /\ IsPassThrough(Head(chan)) )
           => /\ this_frame' = this_frame
              /\ active_entities' = active_entities
              /\ wr_state' = "running" => out' = Append(out, Head(chan))]_vars

\* Two pass-through records were written around a record that was not.
C17_Witness ==
    /\ Len(recvd) = 3 /\ Len(out) = 2
    /\ recvd[1] = OtherGlobal /\ recvd[3] = Event
    /\ ~IsPassThrough(recvd[2])
    /\ out = << OtherGlobal, Event >>

-----------------------------------------------------------------------------
(* Claims about the scanner of pass 1, checked under SpecScan.             *)

\* The Coords of the first T property of each Update of f after record n.
FirstTsAfter(f, n) ==
    { f[i].props[CHOOSE j \in DOMAIN f[i].props :
                     /\ f[i].props[j].tag = "T"
                     /\ \A k \in DOMAIN f[i].props :
                           f[i].props[k].tag = "T" => j <= k].coords :
        i \in { k \in DOMAIN f :
                  /\ k > n
                  /\ f[k].type = "Update"
                  /\ \E j \in DOMAIN f[k].props : f[k].props[j].tag = "T" } }

\* C18: after pass 1 the original reference is the last reference latitude
\* and longitude of the leading run of GlobalProperty records (0 without
\* one), and the new reference is the floor of its sum with the minimum
\* over the latitudes (longitudes) present in the first T property of each
\* Update that comes after the record that ended the run; that record has
\* no part in it.
C18_ScannerExtent ==
    pc \in {"pipeline", "ok", "panic"} =>
        LET seen == FirstTsAfter(file, HeaderLen(file) + 1)
            lats == { c.latitude[1] : c \in { d \in seen : d.latitude # None } }
            lons == { c.longitude[1] : c \in { d \in seen : d.longitude # None } }
        IN  /\ reference_ll = HeaderRef(file)
            /\ new_reference_ll =
                   LL(Floor(HeaderRef(file).lat + SetMin(lats)),
                      Floor(HeaderRef(file).lon + SetMin(lons)))

\* A reference, then an Update that pass 1 discards, then an Update whose
\* first T is farther north than its second: the new reference is that of
\* the first T alone.
C18_Witness ==
    /\ pc = "pipeline"
    /\ Len(file) = 3
    /\ file[1] = RefLat(1)
    /\ file[2] = Update(1, << PropT(Coords(Some(1), None, None)) >>)
    /\ file[3] = Update(1, << PropT(Coords(Some(MaxCoord), None, None)),
                              PropT(Coords(Some(1), None, None)) >>)
    /\ reference_ll = LL(1, 0)
    /\ new_reference_ll = LL(Floor(1 + MaxCoord), 0)

-----------------------------------------------------------------------------
(* Claims about the channel and termination.  The channel of the program   *)
(* holds 1024 records (bounded(1024), line 126); the model's channel holds *)
(* ChanCap, so that a file of MaxLen records can fill it.                  *)

\* C19: the channel never holds more records than its capacity; a record is
\* added only, at the back, when fewer than that are buffered, and a
\* producer facing a full channel cannot send; a record is taken only, from
\* the front, when at least one is buffered, and a consumer facing an empty
\* channel can do nothing until a record arrives or the sender is gone.
C19_BoundedChannel ==
    /\ [](Len(chan) <= ChanCap)
    /\ []((rd_state = "running" /\ ~WriterExited /\ Len(chan) = ChanCap)
              => ~ENABLED ReaderSend)
    /\ []((wr_state = "running" /\ chan = << >>)
              => /\ ~ENABLED WriterStep
                 /\ ENABLED WriterFinish <=> ReaderExited)
    /\ [][Len(chan') > Len(chan)
              => /\ Len(chan) < ChanCap
                 /\ chan' = Append(chan, file[rd_pos + 1])]_vars
    /\ [][recvd' # recvd
              => /\ chan # << >>
                 /\ recvd' = Append(recvd, Head(chan))]_vars

\* The producer has a record to send and waits: the channel is full and the
\* consumer is at work.
C19_Witness ==
    /\ rd_state = "running"
    /\ rd_pos < Len(file)
    /\ wr_state = "running"
    /\ Len(chan) = ChanCap
    /\ ~ENABLED ReaderSend

\* The run is over: pass 1 failed, or both threads were joined.
Done == pc \in {"ok", "err", "panic"}

\* C20: under fair scheduling a run whose pipeline has started ends with both
\* threads finished and joined, whatever the input and whether or not a read
\* or a write fails; and as long as it has not ended, a thread or the join
\* can take a step: no thread is left waiting on the channel for good.
C20_PipelineTermination ==
    /\ (pc = "pipeline") ~> (Done /\ WriterExited /\ ReaderExited)
    /\ []((pc = "pipeline")
              => ENABLED << ReaderRuns \/ WriterRuns \/ Join >>_vars)

\* The consumer failed on a write after it had taken records, the producer
\* stopped short of the end of its input, and the join completed.
C20_Witness ==
    /\ pc = "err"
    /\ wr_state = "err"
    /\ rd_state = "ok"
    /\ recvd # << >>
    /\ rd_pos < Len(file)

====
